---------------------------- MODULE Spec2Model ----------------------------
(***************************************************************************)
(* A model of g4vg: the conversion facade (src/src/G4VG.cc), the support   *)
(* types of src/src/detail/TranslationTypes.hh (OpaqueId, make_gdml_name), *)
(* and the collaborators the facade calls (the Geant4 geometry store and   *)
(* reflection factory, the GDML name generator, the geocel Converter and   *)
(* the VecGeom registry), which are not part of the repository and are     *)
(* modelled from their documented contract.                                *)
(***************************************************************************)
EXTENDS Integers, Sequences, FiniteSets, TLC

(***************************************************************************)
(* Bounds of the model.                                                    *)
(***************************************************************************)
\* Number of source logical volumes in the geometry store.
NumLV == 3
\* Largest number of auxiliary destination volumes one solid registers.
MaxAux == 2
\* Width in bits of OpaqueId::size_type in the model.
IdBits == 3
\* Number of logical volumes of the name-generator scenario.
NumNamed == 2
\* Largest number of reflected volumes the factory creates.
MaxRefl == 1
\* Largest number of calls through the shared name generator.
MaxCalls == 3

VARIABLES
    \* ---- source geometry (Geant4 stores) ----
    lvs,          \* set of logical volumes (each identified by its object)
    lvName,       \* G4LogicalVolume::GetName of each volume
    constituent,  \* G4ReflectionFactory: reflected volume -> constituent (0: none)
    place,        \* number of placements of daughter j inside mother i
    solidKind,    \* what converting the volume's solid does
    auxCount,     \* auxiliary destination volumes the solid registers
    \* ---- one call of g4vg::convert ----
    pc,           \* "idle", "returned", "raised", "crashed"
    arg_world,    \* the world the caller passed
    arg_options,  \* the options the caller passed
    geocel_opts,  \* the options the Converter was constructed with
    convCalls,    \* number of invocations of the Converter
    geocel_result,\* what the Converter returned
    thrown,       \* the error the Converter raised
    converted,    \* what convert returned to the caller
    raised,       \* the error that reached the caller
    registry,     \* VecGeom GeoManager: names of registered logical volumes
    \* ---- make_gdml_name ----
    generated,    \* names make_gdml_name returned, per volume
    writerCalls,  \* calls made through the shared temp_writer
    \* ---- OpaqueId ----
    oid,          \* the identifier object (its value_)
    oid_op,       \* the last operation applied to it
    oid_arg,      \* the argument of the last construction
    oid_ret,      \* the value the last operation returned
    oid_pre,      \* the wrapped value before the last operation
    oid_hist,     \* the values held before the current one, since construction
    oid_ok,       \* every increment since construction was of a valid id
    oid_fail,     \* the last operation was stopped by a failed precondition
    \* ---- SoftEqual ----
    soft_eq,      \* the comparator object (rel_, abs_)
    soft_call,    \* the last comparison: its arguments and results
    \* ---- RuntimeError ----
    rt_error,     \* the last error constructed: its details and message
    \* ---- test fixtures (G4VGTestBase) ----
    loaded_basename, \* the function-local static of SetUp
    fixture,      \* the fixture object of the running test
    test_log      \* what the process did so far: loads, fixtures run

geoVars == <<lvs, lvName, constituent, place, solidKind, auxCount>>
callVars == <<pc, arg_world, arg_options, geocel_opts, convCalls, geocel_result,
              thrown, converted, raised, registry>>
nameVars == <<generated, writerCalls>>
idVars == <<oid, oid_op, oid_arg, oid_ret, oid_pre, oid_hist, oid_ok, oid_fail>>
seVars == <<soft_eq, soft_call>>
errVars == <<rt_error>>
testVars == <<loaded_basename, fixture, test_log>>
restVars == <<seVars, errVars, testVars>>
vars == <<geoVars, callVars, nameVars, idVars, restVars>>

(***************************************************************************)
(* Strings are sequences of one-character strings.                         *)
(***************************************************************************)
RECURSIVE Pow2(_)
Pow2(n) == IF n = 0 THEN 1 ELSE 2 * Pow2(n - 1)

IsPrefix(p, s) == Len(p) <= Len(s) /\ SubSeq(s, 1, Len(p)) = p


(***************************************************************************)
(* Source geometry: logical volumes are objects; the model names each by   *)
(* an index and gives it the address AddrOf(index).                        *)
(***************************************************************************)
NullWorld == 0

\* Addresses 0x1, 0x1f, 0x1f1, ...: distinct, non-null, of growing length,
\* each a prefix of the next.
RECURSIVE AddrOf(_)
AddrOf(lv) ==
    IF lv <= 1 THEN 1
    ELSE 16 * AddrOf(lv - 1) + (IF lv % 2 = 0 THEN 15 ELSE 1)

\* G4ReflectionFactory::GetVolumesNameExtension (default extension).
ReflExt == <<"_", "r", "e", "f", "l">>

\* G4ReflectionFactory::GetConstituentLV: the constituent of a reflected
\* volume, 0 (null) for a volume the factory did not create.
GetConstituentLV(lv) == constituent[lv]

HexDigit == <<"0", "1", "2", "3", "4", "5", "6", "7",
              "8", "9", "a", "b", "c", "d", "e", "f">>

RECURSIVE HexDigits(_)
HexDigits(n) ==
    IF n < 16 THEN <<HexDigit[n + 1]>>
    ELSE HexDigits(n \div 16) \o <<HexDigit[(n % 16) + 1]>>

\* operator<<(std::ostream&, void const*) for a non-null pointer.
PtrString(addr) == <<"0", "x">> \o HexDigits(addr)

\* Characters the GDML writer replaces by an underscore.
ToRemove == {" ", "/", ":", "#", "+"}

Sanitize(s) == [i \in 1..Len(s) |-> IF s[i] \in ToRemove THEN "_" ELSE s[i]]

\* G4GDMLWrite::GenerateName(name, ptr) with addPointerToName set (default).
GenerateName(name, lv) == Sanitize(name \o PtrString(AddrOf(lv)))

\* A plausible slip: the reflected branch forgets the reflection extension.
make_gdml_name_no_ext(lv) ==
    IF GetConstituentLV(lv) # 0
    THEN GenerateName(lvName[GetConstituentLV(lv)], GetConstituentLV(lv))
    ELSE GenerateName(lvName[lv], lv)

\* A plausible slip: the address of the shared writer is passed as the key.
make_gdml_name_fixed_ptr(lv) ==
    IF GetConstituentLV(lv) # 0
    THEN GenerateName(lvName[GetConstituentLV(lv)], 1) \o ReflExt
    ELSE GenerateName(lvName[lv], 1)

\* make_gdml_name(G4LogicalVolume const&)
make_gdml_name(lv) ==
    IF GetConstituentLV(lv) # 0
    THEN GenerateName(lvName[GetConstituentLV(lv)], GetConstituentLV(lv))
            \o ReflExt
    ELSE GenerateName(lvName[lv], lv)

(***************************************************************************)
(* Errors: RuntimeErrorDetails {which, what, condition, file, line}.       *)
(***************************************************************************)
NoError == [which |-> "", what |-> "", condition |-> "", file |-> "", line |-> 0]

\* CELER_RUNTIME_THROW(WHICH, WHAT, COND): the details of the thrown error.
RuntimeThrow(which, what, cond, file, line) ==
    [which |-> which, what |-> what, condition |-> cond, file |-> file,
     line |-> line]

\* CELER_VALIDATE(COND, MSG) failing: a "runtime" error.
ValidateFailure(what, cond, file, line) ==
    RuntimeThrow("runtime", what, cond, file, line)

(***************************************************************************)
(* OpaqueId.                                                               *)
(***************************************************************************)
\* CELER_EXPECT(COND): defined empty, so the precondition always passes.
CELER_EXPECT(cond) == TRUE

\* static_cast<size_type>(v): reduction modulo 2^IdBits.
ToSizeType(v) == v % Pow2(IdBits)

\* A plausible slip: zero taken as the unassigned value.
invalid_value_zero == ToSizeType(0)

\* OpaqueId::invalid_value()
invalid_value == ToSizeType(-1)

\* OpaqueId::OpaqueId()
OpaqueIdDefault == [value_ |-> invalid_value]

\* OpaqueId::OpaqueId(size_type index)
OpaqueIdFrom(index) == [value_ |-> ToSizeType(index)]

\* OpaqueId::operator bool
IdBool(id) == id.value_ # invalid_value

\* A plausible slip: the identifier advances by two.
IdIncrementTwice(id) == [value_ |-> ToSizeType(id.value_ + 2)]

\* OpaqueId::operator++ (pre-increment): value_ += 1
IdIncrement(id) == [value_ |-> ToSizeType(id.value_ + 1)]

\* OpaqueId::get: the value it returns.
IdGet(id) == id.value_

\* OpaqueId::get: whether its precondition lets the read go on. The
\* CELER_EXPECT(*this) in it is commented out, and the macro is empty.
IdGetExpect(id) == CELER_EXPECT(IdBool(id))

\* OpaqueId::unchecked_get
unchecked_get(id) == id.value_

\* The identifier type of the Converter's map: it only needs to hold ids.
VolumeId(index) == [value_ |-> index]

(***************************************************************************)
(* The external Converter (geocel) and the destination registry.           *)
(***************************************************************************)
\* A destination placed-volume handle; NullPlaced is the null pointer.
NullPlaced == [null |-> TRUE, lv |-> 0]
Placed(id) == [null |-> FALSE, lv |-> id]

\* The Converter's result type {world, volumes}.
EmptyResult == [world |-> NullPlaced, volumes |-> <<>>]

\* The state of one walk: the volume map, the registry and a raised error.
StartWalk(reg) == [volumes |-> <<>>, reg |-> reg, err |-> NoError]

\* Registry entries: a destination logical volume made for a source volume,
\* or an auxiliary one made inside a solid (the operands of a boolean).
\* The destination volume's name begins with the source volume's own name,
\* the reflection suffix included, and goes on with the volume's address.
DestLV(lv) == [name |-> lvName[lv] \o PtrString(AddrOf(lv)), source |-> lv]
AuxLV(lv) == [name |-> <<>>, source |-> 0]

RECURSIVE AuxEntries(_, _)
AuxEntries(lv, n) == IF n = 0 THEN <<>> ELSE AuxEntries(lv, n - 1) \o <<AuxLV(lv)>>

\* Converting one logical volume once its daughters are built: the solid is
\* converted (and compared when asked), then the destination volume is
\* created and takes the registry's next identifier.
ConvertLV(lv, opts, st) ==
    IF solidKind[lv] = "unsupported"
    THEN [st EXCEPT !.err = RuntimeThrow("implementation", "unsupported solid",
                                         "", "SolidConverter.cc", lv)]
    ELSE IF solidKind[lv] = "mismatch" /\ opts.compare_volumes
    THEN [st EXCEPT !.err = ValidateFailure("capacity mismatch",
                                "soft_equal(vg_cap, g4_cap)",
                                "SolidConverter.cc", lv)]
    ELSE LET reg1 == st.reg \o AuxEntries(lv, auxCount[lv])
         IN [st EXCEPT !.reg = reg1 \o <<DestLV(lv)>>,
                       !.volumes = st.volumes @@ (lv :> VolumeId(Len(reg1)))]

RECURSIVE BuildWithDaughters(_, _, _)
RECURSIVE BuildDaughtersFrom(_, _, _, _)

\* The daughters of mother, from index j on, in order.
BuildDaughtersFrom(mother, j, opts, st) ==
    IF j > NumLV \/ st.err # NoError THEN st
    ELSE BuildDaughtersFrom(mother, j + 1, opts,
            IF j \in lvs /\ place[<<mother, j>>] > 0
            THEN BuildWithDaughters(j, opts, st) ELSE st)

\* The walk: a logical volume already in the map is not converted again.
BuildWithDaughters(lv, opts, st) ==
    IF st.err # NoError \/ lv \in DOMAIN st.volumes THEN st
    ELSE LET built == BuildDaughtersFrom(lv, 1, opts, st)
         IN IF built.err # NoError THEN built ELSE ConvertLV(lv, opts, built)

\* What Converter::operator()(world) can do, as a set of outcomes. A null
\* world is outside its precondition: it fails the precondition check, or
\* the process dies, or it returns without a world.
ConverterOutcomes(world, opts, reg) ==
    IF world = NullWorld
    THEN {[kind |-> "error", result |-> EmptyResult, reg |-> reg,
           err |-> RuntimeThrow("precondition", "", "g4world", "Converter.cc", 1)],
          [kind |-> "crash", result |-> EmptyResult, reg |-> reg, err |-> NoError],
          [kind |-> "ok", result |-> EmptyResult, reg |-> reg, err |-> NoError]}
    ELSE LET st == BuildWithDaughters(world, opts, StartWalk(reg))
         IN IF st.err # NoError
            THEN {[kind |-> "error", result |-> EmptyResult, reg |-> st.reg,
                   err |-> st.err]}
            ELSE {[kind |-> "ok", reg |-> st.reg, err |-> NoError,
                   result |-> [world |-> Placed(st.volumes[world].value_),
                               volumes |-> st.volumes]]}

\* GeoManager::FindLogicalVolume(id): the entry, or the null entry.
NullDestLV == [name |-> <<>>, source |-> -1]
FindLogicalVolume(id) ==
    IF id + 1 \in 1..Len(registry) THEN registry[id + 1] ELSE NullDestLV

(***************************************************************************)
(* The facade: g4vg::convert.                                              *)
(***************************************************************************)
\* Options{} : the defaults.
DefaultOptions == [verbose |-> FALSE, compare_volumes |-> FALSE]
AllOptions == [verbose : BOOLEAN, compare_volumes : BOOLEAN]

\* A plausible slip: the comparison flag is not copied.
MakeGeocelOptsDropCompare(options) ==
    [verbose |-> options.verbose, compare_volumes |-> FALSE]

\* The lambda that builds Converter::Options from Options.
MakeGeocelOpts(options) ==
    [verbose |-> options.verbose, compare_volumes |-> options.compare_volumes]

\* A plausible slip: the world pointer is left default-initialised.
RemapNoWorld(res) ==
    [world |-> NullPlaced,
     volumes |-> [lv \in DOMAIN res.volumes |-> unchecked_get(res.volumes[lv])]]

\* A plausible slip: entries whose identifier tests false-like (0) are skipped.
RemapSkipZero(res) ==
    [world |-> res.world,
     volumes |-> [lv \in {k \in DOMAIN res.volumes :
                             unchecked_get(res.volumes[k]) # 0}
                     |-> unchecked_get(res.volumes[lv])]]

\* A plausible slip: the loop index is stored instead of the identifier.
RemapByCount(res) ==
    [world |-> res.world,
     volumes |-> [lv \in DOMAIN res.volumes |->
                    Cardinality({k \in DOMAIN res.volumes : k < lv})]]

\* A plausible slip: every identifier is narrowed to one bit.
RemapNarrow(res) ==
    [world |-> res.world,
     volumes |-> [lv \in DOMAIN res.volumes |->
                    unchecked_get(res.volumes[lv]) % 2]]

\* A plausible slip: identifiers are stored counting from one.
RemapFromOne(res) ==
    [world |-> res.world,
     volumes |-> [lv \in DOMAIN res.volumes |->
                    unchecked_get(res.volumes[lv]) + 1]]

\* "Remap output to remove volume IDs": world copied, each id unwrapped.
Remap(res) ==
    [world |-> res.world,
     volumes |-> [lv \in DOMAIN res.volumes |-> unchecked_get(res.volumes[lv])]]

\* A plausible slip: the facade catches the error and returns what it has.
OnConverterErrorSwallow(err) ==
    [pc |-> "returned", raised |-> NoError, converted |-> EmptyResult]

\* An exception of the Converter leaves convert: nothing is caught.
OnConverterError(err) ==
    [pc |-> "raised", raised |-> err, converted |-> EmptyResult]

\* The body of convert(world, options): what it does to the state of the
\* call and of the destination registry.
ConvertBody(world, options) ==
    /\ arg_world' = world
    /\ arg_options' = options
    /\ geocel_opts' = MakeGeocelOpts(options)
    /\ convCalls' = convCalls + 1
    /\ \E out \in ConverterOutcomes(world, geocel_opts', registry) :
          /\ registry' = out.reg
          /\ geocel_result' = out.result
          /\ thrown' = out.err
          /\ CASE out.kind = "ok" ->
                    /\ pc' = "returned"
                    /\ converted' = Remap(out.result)
                    /\ raised' = NoError
               [] out.kind = "error" ->
                    LET r == OnConverterError(out.err)
                    IN /\ pc' = r.pc
                       /\ converted' = r.converted
                       /\ raised' = r.raised
               [] OTHER ->
                    /\ pc' = "crashed"
                    /\ converted' = EmptyResult
                    /\ raised' = NoError

\* convert(world, options), called once on a built geometry
ConvertWithOptions(world, options) ==
    /\ pc = "idle"
    /\ ConvertBody(world, options)
    /\ UNCHANGED <<geoVars, nameVars, idVars, restVars>>

\* convert(world): convert(world, {})
ConvertDefault(world) == ConvertWithOptions(world, DefaultOptions)

(***************************************************************************)
(* Specification of the conversion: a geometry, then one call of convert.  *)
(***************************************************************************)
\* Names of the volumes of the conversion scenario: two volumes share a
\* name, one name holds a character the GDML writer replaces.
NameTable(lv) ==
    CASE lv = 1 -> <<"W">>
      [] lv = 2 -> <<"a">>
      [] lv = 3 -> <<"a">>
      [] OTHER -> <<"b", " ">>

PlaceCounts == {0, 1, 2}

\* Placements: daughters have a larger index than their mother (a DAG).
Placements ==
    {p \in [(1..NumLV) \X (1..NumLV) -> PlaceCounts] :
        \A i, j \in 1..NumLV : i >= j => p[<<i, j>>] = 0}

\* At most one volume of a geometry is special: its solid is a boolean, or
\* converts to a different capacity, or is not supported, or the volume is
\* the reflected copy of the volume before it.
Specials ==
    {[lv |-> 0, kind |-> "plain", aux |-> 0, of |-> 0]}
    \cup {[lv |-> l, kind |-> "boolean", aux |-> k, of |-> 0] :
            l \in 1..NumLV, k \in 1..MaxAux}
    \cup {[lv |-> l, kind |-> k, aux |-> 0, of |-> 0] :
            l \in 1..NumLV, k \in {"mismatch", "unsupported"}}
    \cup {[lv |-> l, kind |-> "plain", aux |-> 0, of |-> l - 1] :
            l \in 3..NumLV}

\* ---------------------------------------------------------------------
\* SoftEqual (TranslationTypes.hh).  Real numbers are decimal: the record
\* [m, e] stands for m * 10^e, and arithmetic on them is exact.  Mantissas
\* stay below 10^ShiftLimit in magnitude.
\* ---------------------------------------------------------------------
ShiftLimit == 4
MaxMag == 5
MaxTol == 5

RECURSIVE Pow10(_)
Pow10(n) == IF n = 0 THEN 1 ELSE 10 * Pow10(n - 1)

Dec(m, e) == [m |-> m, e |-> e]

\* x < y.  Exponents further apart than ShiftLimit decide by themselves.
DecLess(x, y) ==
    IF x.e >= y.e
    THEN IF x.e - y.e > ShiftLimit
         THEN (IF x.m = 0 THEN 0 < y.m ELSE x.m < 0)
         ELSE x.m * Pow10(x.e - y.e) < y.m
    ELSE IF y.e - x.e > ShiftLimit
         THEN (IF y.m = 0 THEN x.m < 0 ELSE 0 < y.m)
         ELSE x.m < y.m * Pow10(y.e - x.e)

\* x - y, at the smaller exponent.
DecSub(x, y) ==
    LET e == IF x.e < y.e THEN x.e ELSE y.e
    IN  Dec(x.m * Pow10(x.e - e) - y.m * Pow10(y.e - e), e)

\* x * y
DecMul(x, y) == Dec(x.m * y.m, x.e + y.e)

\* x / y, for a mantissa of x that is a multiple of that of y.
DecDiv(x, y) == Dec(x.m \div y.m, x.e - y.e)

fabs(x) == Dec(IF x.m < 0 THEN 0 - x.m ELSE x.m, x.e)

fmax(x, y) == IF DecLess(x, y) THEN y ELSE x

\* SoftEqualTraits<double>
rel_prec == Dec(1, 0 - 12)
abs_thresh == Dec(1, 0 - 14)

\* SoftEqual(rel, abs): both members are stored as given; the two
\* CELER_EXPECT lines expand to nothing.
SoftEqual(rel, abs) ==
    IF CELER_EXPECT(DecLess(Dec(0, 0), rel))
       /\ CELER_EXPECT(DecLess(Dec(0, 0), abs))
    THEN [rel_ |-> rel, abs_ |-> abs]
    ELSE [rel_ |-> Dec(0, 0), abs_ |-> Dec(0, 0)]

\* SoftEqual(): the default relative and absolute precision.
SoftEqualDefault == [rel_ |-> rel_prec, abs_ |-> abs_thresh]

\* SoftEqual(rel): the absolute precision scaled from the relative one.
SoftEqualFromRel(rel) ==
    SoftEqual(rel, DecMul(rel, DecDiv(abs_thresh, rel_prec)))

\* A comparison whose relative tolerance is scaled by the first argument
\* alone.
SoftEqualCallFirstOnly(eq, a, b) ==
    LET rel == DecMul(eq.rel_, fabs(a))
    IN  DecLess(fabs(DecSub(a, b)), fmax(eq.abs_, rel))

\* operator()(a, b)
SoftEqualCall(eq, a, b) ==
    LET rel == DecMul(eq.rel_, fmax(fabs(a), fabs(b)))
    IN  DecLess(fabs(DecSub(a, b)), fmax(eq.abs_, rel))

NoSoftCall == [done |-> FALSE, a |-> Dec(0, 0), b |-> Dec(0, 0),
               ab |-> FALSE, ba |-> FALSE, aa |-> FALSE]

InitSoftEq ==
    /\ soft_eq = SoftEqualDefault
    /\ soft_call = NoSoftCall

\* ---------------------------------------------------------------------
\* RuntimeError (TranslationTypes.hh).  A message is the sequence of the
\* pieces streamed into it; streaming an empty string adds nothing.
\* ---------------------------------------------------------------------
Emit(str) == IF str = "" THEN <<>> ELSE <<str>>

RECURSIVE DecDigits(_)
\* operator<<(std::ostream&, int) for a non-negative int.
DecDigits(n) ==
    IF n < 10 THEN <<HexDigit[n + 1]>>
    ELSE DecDigits(n \div 10) \o <<HexDigit[(n % 10) + 1]>>

color_code(abbrev) == ""

\* The static flag of build_runtime_error_msg: its initialiser returns
\* true; the lookup of the environment is commented out.
verbose_message == TRUE

\* Detail shown only when every one of the three conditions holds.
DetailShownAllOf(d) ==
    verbose_message /\ d.what = "" /\ d.which # "runtime"

\* The condition guarding the location/condition block.
DetailShown(d) ==
    verbose_message \/ d.what = "" \/ d.which # "runtime"

build_runtime_error_msg(d) ==
    LET head == <<"celeritas: ">> \o Emit(color_code("R"))
                \o <<IF d.which = "" THEN "unknown" ELSE d.which>>
                \o <<" error: ">> \o Emit(color_code(" "))
        canned ==
            IF d.which = "configuration"
            THEN <<"required dependency is disabled in this build: ">>
            ELSE IF d.which = "implementation"
            THEN <<"feature is not yet implemented: ">>
            ELSE <<>>
        lineno == IF d.line # 0 /\ d.file # ""
                  THEN <<":">> \o DecDigits(d.line)
                  ELSE <<>>
        outcome == IF d.condition # ""
                   THEN <<" '", d.condition, "'", " failed">>
                   ELSE <<" failure">>
        detail ==
            IF DetailShown(d)
            THEN <<"\n">>
                 \o Emit(color_code(IF d.condition = "" THEN "x" ELSE "W"))
                 \o <<IF d.file = "" THEN "unknown source" ELSE d.file>>
                 \o lineno \o <<":">> \o Emit(color_code(" ")) \o outcome
            ELSE <<>>
    IN  head \o canned \o Emit(d.what) \o detail

\* RuntimeError::RuntimeError(RuntimeErrorDetails&&)
RuntimeError(d) ==
    [raised |-> TRUE, details_ |-> d, msg |-> build_runtime_error_msg(d)]

NoRuntimeError == [raised |-> FALSE, details_ |-> NoError, msg |-> <<>>]

InitError == rt_error = NoRuntimeError

\* ---------------------------------------------------------------------
\* G4VGTestBase (test/G4VG.test.cc).
\* ---------------------------------------------------------------------
\* The value SetUp stores before it loads.
FailureBasename == "<FAILURE>"

\* G4VGTestBase(): world_{nullptr}
NoFixture == [phase |-> "none", setup |-> "pending", basename |-> "",
              world_ |-> NullWorld]

\* g4world()
g4world(fx) == fx.world_

NoTestLog == [loads |-> 0, run |-> 0, before |-> "",
              vg_world |-> NullPlaced]

InitTest ==
    /\ loaded_basename = ""
    /\ fixture = NoFixture
    /\ test_log = NoTestLog

InitRest ==
    /\ InitSoftEq
    /\ InitError
    /\ InitTest

InitCall ==
    /\ pc = "idle"
    /\ arg_world = NullWorld
    /\ arg_options = DefaultOptions
    /\ geocel_opts = DefaultOptions
    /\ convCalls = 0
    /\ geocel_result = EmptyResult
    /\ thrown = NoError
    /\ converted = EmptyResult
    /\ raised = NoError
    /\ registry = <<>>

InitId ==
    /\ oid = OpaqueIdDefault
    /\ oid_op = "default"
    /\ oid_arg = 0
    /\ oid_ret = 0
    /\ oid_pre = OpaqueIdDefault.value_
    /\ oid_hist = {}
    /\ oid_ok = TRUE
    /\ oid_fail = FALSE

InitConvert ==
    /\ lvs = 1..NumLV
    /\ place \in Placements
    /\ \E sp \in Specials :
          \* a reflected copy is not placed inside its own constituent
          /\ sp.of # 0 => place[<<sp.of, sp.lv>>] = 0
          /\ solidKind = [l \in 1..NumLV |-> IF l = sp.lv THEN sp.kind ELSE "plain"]
          /\ auxCount = [l \in 1..NumLV |-> IF l = sp.lv THEN sp.aux ELSE 0]
          /\ constituent = [l \in 1..NumLV |-> IF l = sp.lv THEN sp.of ELSE 0]
          /\ lvName = [l \in 1..NumLV |->
                          IF l = sp.lv /\ sp.of # 0
                          THEN NameTable(sp.of) \o ReflExt ELSE NameTable(l)]
    /\ generated = [l \in 1..NumLV |-> {}]
    /\ writerCalls = 0
    /\ InitCall
    /\ InitId
    /\ InitRest

\* The world is a volume the reflection factory did not create, or null.
NextConvert ==
    \E world \in {l \in lvs : constituent[l] = 0} \cup {NullWorld} :
        \/ ConvertDefault(world)
        \/ \E options \in AllOptions : ConvertWithOptions(world, options)

SpecConvert == InitConvert /\ [][NextConvert]_vars

(***************************************************************************)
(* Properties of the conversion (checked under SpecConvert).               *)
(***************************************************************************)
\* The logical volumes reachable from w through placements, as a closure.
RECURSIVE ReachFrom(_, _)
ReachFrom(S, n) ==
    IF n = 0 THEN S
    ELSE ReachFrom(S \cup {j \in lvs : \E i \in S : place[<<i, j>>] > 0}, n - 1)

Reachable(w) == ReachFrom({w}, NumLV)

\* Number of placements whose logical volume is j, in mothers reachable from w.
PlacementsOf(w, j) ==
    LET ms == {i \in Reachable(w) : place[<<i, j>>] > 0}
    IN IF \E i \in ms : place[<<i, j>>] > 1 THEN 2 ELSE Cardinality(ms)

ResultValues == {converted.volumes[lv] : lv \in DOMAIN converted.volumes}

Succeeded == pc = "returned" /\ arg_world # NullWorld

\* C1: after a successful convert(world) the result map has exactly one
\* entry per distinct logical volume reachable from world, whatever the
\* number of placements: its key set is the reachable set.
C1_OneEntryPerReachableVolume ==
    Succeeded =>
        /\ DOMAIN converted.volumes = Reachable(arg_world)
        /\ Cardinality(DOMAIN converted.volumes)
              = Cardinality(Reachable(arg_world))

\* C1 witness: a conversion returned for a geometry in which a volume is
\* placed more than once and another volume is not reachable.
C1_Witness ==
    /\ Succeeded
    /\ \E j \in lvs : PlacementsOf(arg_world, j) >= 2
    /\ Reachable(arg_world) # lvs
    /\ Cardinality(DOMAIN converted.volumes) >= 2

\* C2 as stated: the values of the result map are {0, ..., N-1}.
C2_ValuesDense ==
    pc = "returned" =>
        ResultValues = 0..(Cardinality(DOMAIN converted.volumes) - 1)

\* C2 as amended: the values are pairwise distinct and each is below the
\* number of logical volumes in the destination registry; they are
\* {0, ..., N-1} when no converted solid registered auxiliary volumes.
C2_ValuesDistinctBelowRegistry ==
    pc = "returned" =>
        /\ \A a, b \in DOMAIN converted.volumes :
              a # b => converted.volumes[a] # converted.volumes[b]
        /\ \A a \in DOMAIN converted.volumes :
              converted.volumes[a] \in 0..(Len(registry) - 1)
        /\ (\A a \in DOMAIN converted.volumes : auxCount[a] = 0)
              => ResultValues = 0..(Cardinality(DOMAIN converted.volumes) - 1)

\* C2 witness: a conversion returned at least three entries, one of them a
\* volume whose solid registered auxiliary destination volumes.
C2_Witness ==
    /\ Succeeded
    /\ Cardinality(DOMAIN converted.volumes) >= 3
    /\ \E a \in DOMAIN converted.volumes : auxCount[a] > 0

\* C3: convert invokes the Converter once and remaps its output one to one:
\* same keys, each value the unchecked value of the key's identifier, and
\* the Converter's world handle unchanged.
C3_RemapOneToOne ==
    pc = "returned" =>
        /\ convCalls = 1
        /\ DOMAIN converted.volumes = DOMAIN geocel_result.volumes
        /\ \A lv \in DOMAIN converted.volumes :
              converted.volumes[lv] = geocel_result.volumes[lv].value_
        /\ converted.world = geocel_result.world

\* C3 witness: a returned conversion of several volumes whose identifiers
\* are not simply their rank.
C3_Witness ==
    /\ Succeeded
    /\ Cardinality(DOMAIN geocel_result.volumes) >= 2
    /\ \E lv \in DOMAIN geocel_result.volumes :
          geocel_result.volumes[lv].value_ >= Cardinality(DOMAIN geocel_result.volumes)

\* C4: a convert that was given a non-null world and returned has a
\* non-null destination world; a null world in a result means the caller
\* passed a null world.
C4_WorldNonNull ==
    pc = "returned" =>
        /\ (arg_world # NullWorld => ~converted.world.null)
        /\ (converted.world.null => arg_world = NullWorld)

\* C4 witness: a conversion of a non-null world returned.
C4_Witness ==
    /\ Succeeded
    /\ ~geocel_result.world.null
    /\ Cardinality(DOMAIN converted.volumes) >= 1

\* C5: an error raised by the Converter reaches the caller as it is, and
\* no result is returned with it; the facade never suppresses it.
C5_ErrorPropagatesUnmodified ==
    /\ (thrown # NoError => pc = "raised")
    /\ (pc = "raised" =>
          /\ thrown # NoError
          /\ raised = thrown
          /\ converted = EmptyResult)

\* C5 witness: the Converter raised an error while converting a geometry.
C5_Witness ==
    /\ pc = "raised"
    /\ arg_world # NullWorld
    /\ thrown.which \in {"runtime", "implementation"}
    /\ registry # <<>>

\* A converted solid whose capacity differs from its source's.
HasMismatch ==
    /\ arg_world # NullWorld
    /\ \E lv \in Reachable(arg_world) : solidKind[lv] = "mismatch"
    /\ \A lv \in Reachable(arg_world) : solidKind[lv] # "unsupported"

\* C6: on a geometry with a mismatched solid, convert with compare_volumes
\* raises a "runtime" error and convert without it returns; the options
\* reach the Converter unchanged.
C6_CompareVolumesRaisesRuntime ==
    pc # "idle" =>
        /\ geocel_opts.verbose = arg_options.verbose
        /\ geocel_opts.compare_volumes = arg_options.compare_volumes
        /\ (HasMismatch /\ arg_options.compare_volumes
              => pc = "raised" /\ raised.which = "runtime")
        /\ (HasMismatch /\ ~arg_options.compare_volumes
              => pc = "returned" /\ raised = NoError)

\* C6 witness: a verbose comparing conversion of a geometry with a
\* mismatched solid has raised.
C6_Witness ==
    /\ pc = "raised"
    /\ HasMismatch
    /\ arg_options.compare_volumes
    /\ arg_options.verbose

\* C8: for every entry of the result map the destination volume registered
\* under its identifier exists and its name begins with the source volume's
\* own name, reflected volumes included.
C8_DestNameBeginsWithSourceName ==
    pc = "returned" =>
        \A lv \in DOMAIN converted.volumes :
            /\ FindLogicalVolume(converted.volumes[lv]) # NullDestLV
            /\ IsPrefix(lvName[lv], FindLogicalVolume(converted.volumes[lv]).name)

\* C8 witness: every volume was converted, a reflected copy among them; the
\* destination volume found under the copy's identifier has a name that
\* begins with the copy's name, suffix included, and another volume has the
\* constituent's name.
C8_Witness ==
    /\ pc = "returned"
    /\ DOMAIN converted.volumes = lvs
    /\ \E lv \in DOMAIN converted.volumes :
          /\ constituent[lv] # 0
          /\ converted.volumes[lv] > 0
          /\ IsPrefix(lvName[constituent[lv]] \o ReflExt,
                      FindLogicalVolume(converted.volumes[lv]).name)
          /\ Len(FindLogicalVolume(converted.volumes[lv]).name)
                > Len(lvName[lv])

(***************************************************************************)
(* Specification of the name generator: volumes with chosen names, the     *)
(* reflection factory creating reflected volumes, calls of make_gdml_name. *)
(***************************************************************************)
\* Names chosen to look like generated names, or like each other once the
\* writer has replaced characters.
Names ==
    {<<"a">>,
     <<"a", " ">>,
     <<"a", "_">>,
     <<"a", "0", "x", "1">>,
     <<"a", "0", "x", "1", "f">>,
     <<"a", "_", "r", "e", "f", "l">>,
     <<"a", "0", "x", "1", "_", "r", "e", "f", "l">>}

InitNames ==
    /\ lvs = 1..NumNamed
    /\ lvName \in [1..NumNamed -> Names]
    /\ constituent = [l \in 1..NumNamed |-> 0]
    /\ place = [p \in (1..NumNamed) \X (1..NumNamed) |-> 0]
    /\ solidKind = [l \in 1..NumNamed |-> "plain"]
    /\ auxCount = [l \in 1..NumNamed |-> 0]
    /\ generated = [l \in 1..NumNamed |-> {}]
    /\ writerCalls = 0
    /\ InitCall
    /\ InitId
    /\ InitRest

\* G4ReflectionFactory creating the reflected copy of volume c: c is not
\* itself a reflected volume and has no reflected copy yet; the copy is a
\* new object named after c with the extension.
ReflectLV(c) ==
    LET r == Cardinality(lvs) + 1
    IN /\ c \in lvs
       /\ constituent[c] = 0
       /\ \A l \in lvs : constituent[l] # c
       /\ Cardinality({l \in lvs : constituent[l] # 0}) < MaxRefl
       /\ lvs' = lvs \cup {r}
       /\ lvName' = lvName @@ (r :> lvName[c] \o ReflExt)
       /\ constituent' = constituent @@ (r :> c)
       /\ generated' = generated @@ (r :> {})
       /\ UNCHANGED <<place, solidKind, auxCount, writerCalls, callVars, idVars, restVars>>

\* One call make_gdml_name(lv) through the shared temp_writer.
MakeGdmlNameCall(lv) ==
    /\ lv \in lvs
    /\ writerCalls < MaxCalls
    /\ generated' = [generated EXCEPT ![lv] = @ \cup {make_gdml_name(lv)}]
    /\ writerCalls' = writerCalls + 1
    /\ UNCHANGED <<geoVars, callVars, idVars, restVars>>

NextNames ==
    \/ \E c \in lvs : ReflectLV(c)
    \/ \E lv \in lvs : MakeGdmlNameCall(lv)

SpecNames == InitNames /\ [][NextNames]_vars

\* C7: the name of a reflected volume is the name of its constituent
\* followed by the reflection extension, and differs from it.
C7_ReflectedNameIsConstituentNamePlusExt ==
    \A r \in lvs :
        constituent[r] # 0 =>
            \A n \in generated[r], m \in generated[constituent[r]] :
                n = m \o ReflExt /\ n # m

\* C7 witness: make_gdml_name was called for a reflected volume and for its
\* constituent.
C7_Witness ==
    \E r \in lvs :
        /\ constituent[r] # 0
        /\ generated[r] # {}
        /\ generated[constituent[r]] # {}

\* C9: distinct logical volumes get different names, and a volume gets the
\* same name however many calls went through the shared writer before.
C9_NamesInjective ==
    /\ \A a, b \in lvs : a # b => generated[a] \cap generated[b] = {}
    /\ \A a \in lvs : Cardinality(generated[a]) <= 1

\* C9 witness: after several calls, two volumes of the same name both have
\* a generated name, and so does a reflected volume.
C9_Witness ==
    /\ writerCalls >= 3
    /\ \E a, b \in lvs :
          a # b /\ lvName[a] = lvName[b] /\ generated[a] # {} /\ generated[b] # {}
    /\ \E r \in lvs : constituent[r] # 0 /\ generated[r] # {}

(***************************************************************************)
(* Specification of OpaqueId: one identifier object and its operations.    *)
(***************************************************************************)
SizeValues == 0..(Pow2(IdBits) - 1)

\* OpaqueId id;
IdDefaultConstruct ==
    /\ oid' = OpaqueIdDefault
    /\ oid_op' = "default"
    /\ oid_arg' = 0
    /\ oid_ret' = 0
    /\ oid_pre' = OpaqueIdDefault.value_
    /\ oid_hist' = {}
    /\ oid_ok' = TRUE
    /\ oid_fail' = FALSE
    /\ UNCHANGED <<geoVars, callVars, nameVars, restVars>>

\* OpaqueId id{index};
IdConstruct(index) ==
    /\ oid' = OpaqueIdFrom(index)
    /\ oid_op' = "construct"
    /\ oid_arg' = index
    /\ oid_ret' = 0
    /\ oid_pre' = OpaqueIdFrom(index).value_
    /\ oid_hist' = {}
    /\ oid_ok' = TRUE
    /\ oid_fail' = FALSE
    /\ UNCHANGED <<geoVars, callVars, nameVars, restVars>>

\* ++id : returns the incremented identifier (its CELER_EXPECT is
\* commented out: nothing is checked).
IdPreIncrement ==
    /\ oid' = IdIncrement(oid)
    /\ oid_op' = "preinc"
    /\ oid_ret' = IdIncrement(oid).value_
    /\ oid_pre' = oid.value_
    /\ oid_hist' = oid_hist \cup {oid.value_}
    /\ oid_ok' = (oid_ok /\ IdBool(oid))
    /\ oid_fail' = FALSE
    /\ UNCHANGED <<oid_arg, geoVars, callVars, nameVars, restVars>>

\* id++ : returns a copy made before the increment.
IdPostIncrement ==
    /\ oid' = IdIncrement(oid)
    /\ oid_op' = "postinc"
    /\ oid_ret' = oid.value_
    /\ oid_pre' = oid.value_
    /\ oid_hist' = oid_hist \cup {oid.value_}
    /\ oid_ok' = (oid_ok /\ IdBool(oid))
    /\ oid_fail' = FALSE
    /\ UNCHANGED <<oid_arg, geoVars, callVars, nameVars, restVars>>

\* id.get()
IdGetCall ==
    /\ oid_op' = "get"
    /\ oid_fail' = ~IdGetExpect(oid)
    /\ oid_ret' = IF IdGetExpect(oid) THEN IdGet(oid) ELSE 0
    /\ oid_pre' = oid.value_
    /\ UNCHANGED <<oid, oid_arg, oid_hist, oid_ok, geoVars, callVars, nameVars, restVars>>

\* id.unchecked_get()
IdUncheckedGetCall ==
    /\ oid_op' = "unchecked_get"
    /\ oid_ret' = unchecked_get(oid)
    /\ oid_pre' = oid.value_
    /\ oid_fail' = FALSE
    /\ UNCHANGED <<oid, oid_arg, oid_hist, oid_ok, geoVars, callVars, nameVars, restVars>>

\* static_cast<bool>(id) : 1 for true, 0 for false.
IdBoolCall ==
    /\ oid_op' = "bool"
    /\ oid_ret' = IF IdBool(oid) THEN 1 ELSE 0
    /\ oid_pre' = oid.value_
    /\ oid_fail' = FALSE
    /\ UNCHANGED <<oid, oid_arg, oid_hist, oid_ok, geoVars, callVars, nameVars, restVars>>

InitIdSpec ==
    /\ lvs = {}
    /\ lvName = <<>>
    /\ constituent = <<>>
    /\ place = <<>>
    /\ solidKind = <<>>
    /\ auxCount = <<>>
    /\ generated = <<>>
    /\ writerCalls = 0
    /\ InitCall
    /\ InitId
    /\ InitRest

NextId ==
    \/ IdDefaultConstruct
    \/ \E index \in SizeValues : IdConstruct(index)
    \/ IdPreIncrement
    \/ IdPostIncrement
    \/ IdGetCall
    \/ IdUncheckedGetCall
    \/ IdBoolCall

SpecId == InitIdSpec /\ [][NextId]_vars

\* The value with every bit of size_type set.
AllBitsSet == Pow2(IdBits) - 1

\* C10: a default-constructed OpaqueId is invalid, one constructed from an
\* index below the sentinel is valid, and the boolean conversion is true
\* exactly when the wrapped value is not the all-bits-set sentinel.
C10_ValidIffNotSentinel ==
    /\ (oid_op = "default" => ~IdBool(oid))
    /\ (oid_op = "construct" /\ oid_arg < AllBitsSet => IdBool(oid))
    /\ (IdBool(oid) <=> oid.value_ # AllBitsSet)
    /\ (oid_op = "bool" => (oid_ret = 1 <=> oid.value_ # AllBitsSet))

\* C10 witness: an identifier constructed from index 0 converted to true.
C10_Witness ==
    /\ oid_op = "bool"
    /\ oid_arg = 0
    /\ oid.value_ = 0
    /\ oid_ret = 1

IncrementOps == {"preinc", "postinc"}

\* C11 as stated: every increment raises the wrapped value by one, and the
\* new value is above every value held before.
C11_IncrementOnlyIncreases ==
    oid_op \in IncrementOps =>
        /\ oid.value_ = oid_pre + 1
        /\ \A h \in oid_hist : h < oid.value_

\* C11 as amended: the same, for increments applied to valid identifiers.
C11_IncrementOfValidIncreases ==
    (oid_op \in IncrementOps /\ oid_ok) =>
        /\ oid.value_ = oid_pre + 1
        /\ \A h \in oid_hist : h < oid.value_
        /\ oid.value_ \notin oid_hist

\* C11 witness: a valid identifier was incremented several times, by both
\* operators' code.
C11_Witness ==
    /\ oid_op = "postinc"
    /\ oid_ok
    /\ Cardinality(oid_hist) >= 3
    /\ oid_ret = oid_pre

\* C12 as stated: get() of an invalid identifier is stopped as a precondition
\* violation and does not yield the sentinel; get() of a valid identifier
\* and unchecked_get() in every state yield the wrapped value.
C12_GetIsChecked ==
    /\ (oid_op = "get" /\ oid.value_ = AllBitsSet
          => oid_fail /\ oid_ret # AllBitsSet)
    /\ (oid_op = "get" /\ oid.value_ # AllBitsSet
          => ~oid_fail /\ oid_ret = oid.value_)
    /\ (oid_op = "unchecked_get" => ~oid_fail /\ oid_ret = oid.value_)

(***************************************************************************)
(* SpecSoftEq: a SoftEqual is constructed and applied to pairs of values.   *)
(***************************************************************************)
\* No geometry is built and no name is generated.
InitNoGeometry ==
    /\ lvs = {}
    /\ lvName = <<>>
    /\ constituent = <<>>
    /\ place = <<>>
    /\ solidKind = <<>>
    /\ auxCount = <<>>
    /\ generated = <<>>
    /\ writerCalls = 0

\* Tolerances given to the constructors, in tenths, zero and a negative
\* one among them.
Tolerances == {Dec(m, 0 - 1) : m \in (0 - 1)..MaxTol}

\* Values compared: the quarters of magnitude up to MaxMag quarters.
Values == {Dec(25 * k, 0 - 2) : k \in (0 - MaxMag)..MaxMag}

\* SoftEqual{}
SoftEqualConstructDefault ==
    /\ soft_eq' = SoftEqualDefault
    /\ soft_call' = NoSoftCall
    /\ UNCHANGED <<geoVars, callVars, nameVars, idVars, errVars, testVars>>

\* SoftEqual{rel}
SoftEqualConstructRel(rel) ==
    /\ soft_eq' = SoftEqualFromRel(rel)
    /\ soft_call' = NoSoftCall
    /\ UNCHANGED <<geoVars, callVars, nameVars, idVars, errVars, testVars>>

\* SoftEqual{rel, abs}
SoftEqualConstruct(rel, abs) ==
    /\ soft_eq' = SoftEqual(rel, abs)
    /\ soft_call' = NoSoftCall
    /\ UNCHANGED <<geoVars, callVars, nameVars, idVars, errVars, testVars>>

\* eq(a, b), eq(b, a) and eq(a, a) of the same comparator.
SoftEqualCompare(a, b) ==
    /\ soft_call' = [done |-> TRUE, a |-> a, b |-> b,
                     ab |-> SoftEqualCall(soft_eq, a, b),
                     ba |-> SoftEqualCall(soft_eq, b, a),
                     aa |-> SoftEqualCall(soft_eq, a, a)]
    /\ UNCHANGED <<soft_eq, geoVars, callVars, nameVars, idVars, errVars,
                   testVars>>

InitSoftEqSpec ==
    /\ InitNoGeometry
    /\ InitCall
    /\ InitId
    /\ InitRest

NextSoftEq ==
    \/ SoftEqualConstructDefault
    \/ \E rel \in Tolerances : SoftEqualConstructRel(rel)
    \/ \E rel \in Tolerances, abs \in Tolerances : SoftEqualConstruct(rel, abs)
    \/ \E a \in Values, b \in Values : SoftEqualCompare(a, b)

SpecSoftEq == InitSoftEqSpec /\ [][NextSoftEq]_vars

\* The distance of two values, by cases.
Distance(a, b) == IF DecLess(b, a) THEN DecSub(a, b) ELSE DecSub(b, a)

\* The magnitude of a value, by cases.
Magnitude(a) == IF a.m >= 0 THEN a ELSE Dec(0 - a.m, a.e)

\* d is below the tolerance  max(abs, rel * max(|a|, |b|)), the maximum
\* written as a disjunction.
BelowTolerance(d, rel, abs, a, b) ==
    \/ DecLess(d, abs)
    \/ DecLess(d, DecMul(rel, Magnitude(a)))
    \/ DecLess(d, DecMul(rel, Magnitude(b)))

\* C13: for a SoftEqual built with rel > 0 and abs > 0, eq(a, b) is true
\* exactly when |a - b| < max(abs, rel * max(|a|, |b|)), eq(a, b) equals
\* eq(b, a), and eq(a, a) is true.
C13_SoftEqualToleranceSymmetricReflexive ==
    (soft_call.done /\ soft_eq.rel_.m > 0 /\ soft_eq.abs_.m > 0) =>
        /\ soft_call.ab <=>
             BelowTolerance(Distance(soft_call.a, soft_call.b),
                            soft_eq.rel_, soft_eq.abs_,
                            soft_call.a, soft_call.b)
        /\ soft_call.ab = soft_call.ba
        /\ soft_call.aa

\* C13 witness: two different values of different magnitude are equal by
\* the relative tolerance alone, under positive tolerances.
C13_Witness ==
    /\ soft_call.done
    /\ soft_eq.rel_.m > 0
    /\ soft_eq.abs_.m > 0
    /\ soft_call.a # soft_call.b
    /\ DecLess(Magnitude(soft_call.a), Magnitude(soft_call.b))
    /\ ~DecLess(Distance(soft_call.a, soft_call.b), soft_eq.abs_)
    /\ soft_call.ab
    /\ soft_call.ba

(***************************************************************************)
(* SpecError: runtime errors are constructed from their details.            *)
(***************************************************************************)
Kinds == {"", "runtime", "configuration", "implementation", "Geant4"}
Whats == {"", "volume mismatch"}
Conditions == {"", "a == b"}
Files == {"", "Converter.cc"}
Lines == {0, 7, 42}

\* CELER_RUNTIME_THROW(WHICH, WHAT, COND)
RuntimeThrowCall(which, what, cond, file, line) ==
    /\ rt_error' = RuntimeError(RuntimeThrow(which, what, cond, file, line))
    /\ UNCHANGED <<geoVars, callVars, nameVars, idVars, seVars, testVars>>

\* CELER_VALIDATE(COND, MSG) with a false condition
ValidateCall(what, cond, file, line) ==
    /\ rt_error' = RuntimeError(ValidateFailure(what, cond, file, line))
    /\ UNCHANGED <<geoVars, callVars, nameVars, idVars, seVars, testVars>>

InitErrorSpec ==
    /\ InitNoGeometry
    /\ InitCall
    /\ InitId
    /\ InitRest

NextError ==
    \/ \E which \in Kinds, what \in Whats, cond \in Conditions,
          file \in Files, line \in Lines :
            RuntimeThrowCall(which, what, cond, file, line)
    \/ \E what \in Whats, cond \in Conditions \ {""},
          file \in Files \ {""}, line \in Lines \ {0} :
            ValidateCall(what, cond, file, line)

SpecError == InitErrorSpec /\ [][NextError]_vars

\* The piece of a message that names the location of the failure.
LocationText(d) == IF d.file = "" THEN "unknown source" ELSE d.file

\* The piece of a message that ends the report of the failed condition.
ConditionText(d) == IF d.condition = "" THEN " failure" ELSE " failed"

\* The message has a line of its own, after the first, that names the
\* location, then the line number when there is a file and a line, then
\* the failed condition when there is one.
ContainsDetail(msg, d) ==
    \E n \in 1..Len(msg), i \in 1..Len(msg), j \in 1..Len(msg) :
        /\ n < i /\ i < j
        /\ msg[n] = "\n"
        /\ msg[i] = LocationText(d)
        /\ msg[j] = ConditionText(d)
        /\ j = Len(msg)
        /\ d.condition # "" => \E k \in (i + 1)..(j - 1) : msg[k] = d.condition
        /\ (d.line # 0 /\ d.file # "") =>
              SubSeq(msg, i + 2, i + 1 + Len(DecDigits(d.line)))
                  = DecDigits(d.line)

\* C14: the message of every error contains the location/condition detail
\* when the kind is not "runtime" or the descriptive message is empty; the
\* detail is absent only from a non-verbose rendering of a "runtime" error
\* with a non-empty descriptive message.
C14_DetailShownUnlessTerseRuntime ==
    rt_error.raised =>
        LET d == rt_error.details_
        IN  /\ (d.which # "runtime" \/ d.what = "")
                  => ContainsDetail(rt_error.msg, d)
            /\ ~ContainsDetail(rt_error.msg, d)
                  => (~verbose_message /\ d.which = "runtime" /\ d.what # "")

\* C14 witness: an error of a kind other than "runtime" with a non-empty
\* descriptive message, a file, a line and a condition was rendered, and
\* its message contains the detail.
C14_Witness ==
    /\ rt_error.raised
    /\ rt_error.details_.which = "configuration"
    /\ rt_error.details_.what # ""
    /\ rt_error.details_.file # ""
    /\ rt_error.details_.line # 0
    /\ rt_error.details_.condition # ""
    /\ ContainsDetail(rt_error.msg, rt_error.details_)
    /\ Len(rt_error.msg) > 8

(***************************************************************************)
(* SpecTest: the test fixtures of one process, run one after another.  The  *)
(* test framework constructs a fixture, calls SetUp, runs the body unless   *)
(* SetUp skipped or failed, and calls TearDown.                             *)
(***************************************************************************)
MaxFixtures == 3

\* The values of basename() of the fixtures.
Basenames == {"solids", "testem3", "simple-cms"}

\* The world volume of a loaded file is its first volume.
ParsedWorlds == {NullWorld, 1}

\* The placements of a loaded file: the world holds every other volume once.
FlatPlacement ==
    [p \in (1..NumLV) \X (1..NumLV) |->
        IF p[1] = 1 /\ p[2] > 1 THEN 1 ELSE 0]

\* A fixture object is constructed for the next test.
FixtureConstruct(b) ==
    /\ pc # "crashed"
    /\ fixture.phase \in {"none", "torn_down"}
    /\ test_log.run < MaxFixtures
    /\ fixture' = [phase |-> "constructed", setup |-> "pending",
                   basename |-> b, world_ |-> NullWorld]
    /\ test_log' = [test_log EXCEPT !.run = @ + 1]
    /\ UNCHANGED <<loaded_basename, geoVars, callVars, nameVars, idVars,
                   seVars, errVars>>

\* G4GDMLParser::Read returning: the volumes of the file exist, one of
\* them special as sp says.
ReadGeometry(sp) ==
    /\ lvs' = 1..NumLV
    /\ place' = FlatPlacement
    /\ solidKind' = [l \in 1..NumLV |-> IF l = sp.lv THEN sp.kind ELSE "plain"]
    /\ auxCount' = [l \in 1..NumLV |-> IF l = sp.lv THEN sp.aux ELSE 0]
    /\ constituent' = [l \in 1..NumLV |-> IF l = sp.lv THEN sp.of ELSE 0]
    /\ lvName' = [l \in 1..NumLV |->
                     IF l = sp.lv /\ sp.of # 0
                     THEN NameTable(sp.of) \o ReflExt ELSE NameTable(l)]
    /\ generated' = [l \in 1..NumLV |-> {}]
    /\ UNCHANGED writerCalls

\* G4VGTestBase::SetUp(): read_ok is whether G4GDMLParser::Read returns
\* (it throws otherwise), sp the content of the file it read, world what
\* GetWorldVolume returns.
SetUp(read_ok, sp, world) ==
    /\ pc # "crashed"
    /\ fixture.phase = "constructed"
    /\ LET this_basename == fixture.basename
       IN  IF loaded_basename # ""
           THEN /\ fixture' =
                     [fixture EXCEPT
                        !.phase = "set_up",
                        !.setup = IF this_basename # loaded_basename
                                  THEN "skipped" ELSE "ready"]
                /\ test_log' = [test_log EXCEPT !.before = loaded_basename]
                /\ UNCHANGED <<loaded_basename, geoVars, nameVars>>
           ELSE /\ test_log' = [test_log EXCEPT !.before = loaded_basename,
                                                !.loads = @ + 1]
                /\ IF ~read_ok
                   THEN /\ loaded_basename' = FailureBasename
                        /\ fixture' = [fixture EXCEPT !.phase = "set_up",
                                                      !.setup = "failed"]
                        /\ UNCHANGED <<geoVars, nameVars>>
                   ELSE IF world = NullWorld
                   THEN /\ ReadGeometry(sp)
                        /\ loaded_basename' = FailureBasename
                        /\ fixture' = [fixture EXCEPT !.phase = "set_up",
                                                      !.setup = "failed",
                                                      !.world_ = world]
                   ELSE /\ ReadGeometry(sp)
                        /\ loaded_basename' = this_basename
                        /\ fixture' = [fixture EXCEPT !.phase = "set_up",
                                                      !.setup = "ready",
                                                      !.world_ = world]
    /\ UNCHANGED <<callVars, idVars, seVars, errVars>>

\* The body of a test: it converts g4world() with the default options and,
\* given a world, sets it as the destination library's world.
TestBody ==
    /\ pc # "crashed"
    /\ fixture.phase = "set_up"
    /\ fixture.setup = "ready"
    /\ ConvertBody(g4world(fixture), DefaultOptions)
    /\ fixture' = [fixture EXCEPT !.phase = "ran"]
    /\ test_log' = [test_log EXCEPT
                      !.vg_world = IF pc' = "returned" /\ ~converted'.world.null
                                   THEN converted'.world ELSE @]
    /\ UNCHANGED <<loaded_basename, geoVars, nameVars, idVars, seVars,
                   errVars>>

\* G4VGTestBase::TearDown(): the destination library's manager is cleared.
TearDown ==
    /\ pc # "crashed"
    /\ \/ fixture.phase = "ran"
       \/ fixture.phase = "set_up" /\ fixture.setup # "ready"
    /\ fixture' = [fixture EXCEPT !.phase = "torn_down"]
    /\ registry' = <<>>
    /\ test_log' = [test_log EXCEPT !.vg_world = NullPlaced]
    /\ UNCHANGED <<pc, arg_world, arg_options, geocel_opts, convCalls,
                   geocel_result, thrown, converted, raised>>
    /\ UNCHANGED <<loaded_basename, geoVars, nameVars, idVars, seVars,
                   errVars>>

InitTestSpec ==
    /\ InitNoGeometry
    /\ InitCall
    /\ InitId
    /\ InitRest

NextTest ==
    \/ \E b \in Basenames : FixtureConstruct(b)
    \/ \E read_ok \in BOOLEAN, sp \in Specials, world \in ParsedWorlds :
          SetUp(read_ok, sp, world)
    \/ TestBody
    \/ TearDown

SpecTest == InitTestSpec /\ [][NextTest]_vars

\* SetUp of the current fixture has returned.
SetUpDone == fixture.phase \in {"set_up", "ran", "torn_down"}

\* Every fixture whose SetUp finished without skipping or failing has a
\* non-null g4world().
FinishedFixtureHasWorld ==
    (SetUpDone /\ fixture.setup = "ready") => g4world(fixture) # NullWorld

\* At most one geometry file is ever loaded.
AtMostOneLoad == test_log.loads <= 1

\* Once a geometry was loaded, or a load failed, a fixture with a different
\* basename is skipped.
LaterDifferentSkipped ==
    (SetUpDone /\ test_log.before # "" /\ fixture.basename # test_log.before)
        => fixture.setup = "skipped"

\* C15 as stated: every fixture whose SetUp finishes without skipping has a
\* non-null g4world(), at most one geometry file is ever loaded in the
\* process, and once a geometry was loaded (or a load failed) every later
\* fixture with a different basename is skipped.
C15_OneGeometryPerProcess ==
    /\ FinishedFixtureHasWorld
    /\ AtMostOneLoad
    /\ LaterDifferentSkipped

============================================================================
